---- MODULE Spec2Model ----
(***************************************************************************)
(* State-machine model of the employee vector-search service:              *)
(*   src/services/vector_service.py  (VectorService)                       *)
(*   src/main.py                     (HTTP handlers load_data, query_data) *)
(*                                                                         *)
(* Strings that the code only stores or interpolates are TLA+ strings.     *)
(* Strings that the code searches (the query) are sequences of pieces      *)
(* whose concatenation is the query text; answers are sequences of the     *)
(* pieces an f-string concatenates.  Embeddings are 2-dimensional integer  *)
(* vectors; a normalized vector is a unit vector in fixed point.           *)
(***************************************************************************)
EXTENDS Integers, Sequences, FiniteSets, TLC

VARIABLES
    index,              \* self.index: the rows of the FAISS index, in order
    employees_dict,     \* self.employees_dict: id -> employee record
    employee_ids,       \* self.employee_ids
    employee_metadata,  \* self.employee_metadata
    disk_index,         \* vector_index.faiss: <<>> (absent) or <<rows>>
    disk_meta,          \* metadata.pkl: <<>> (absent), <<data>> or <<Truncated>>
    resp,               \* what the last handler (or startup) did and answered
    last_ok,            \* history: <<>> or <<employees>> of the last load that returned success
    persisted,          \* history: <<>> or <<service state>> that both files now hold, written by one save
    ld,                 \* locals of a load_employees call in progress
    qr                  \* locals of a query_employees call in progress

svc  == <<index, employees_dict, employee_ids, employee_metadata>>
disk == <<disk_index, disk_meta>>
vars == <<index, employees_dict, employee_ids, employee_metadata,
          disk_index, disk_meta, resp, last_ok, persisted, ld, qr>>

(***************************************************************************)
(* Bounds                                                                  *)
(***************************************************************************)
MaxLoad     == 6    \* size of the largest input file (must exceed n_results)
MaxQueryLen == 3    \* pieces in a query

(***************************************************************************)
(* Program constants                                                       *)
(***************************************************************************)
n_results == 5

PyNone  == "<None>"
NoDataAnswer == <<"No employee data loaded. Please load data first.">>

Truthy(s) == s # PyNone /\ s # ""
MinOf(a, b) == IF a <= b THEN a ELSE b

RECURSIVE Reverse(_)
Reverse(s) == IF s = <<>> THEN <<>> ELSE Append(Reverse(Tail(s)), Head(s))

(***************************************************************************)
(* The input: employee records of company_data.json                        *)
(***************************************************************************)
EmpId(i)   == "emp_00" \o ToString(i)
EmpName(i) == "Employee " \o ToString(i)

EmpType(i) == CASE i % 3 = 1 -> "FULL_TIME"
                [] i % 3 = 2 -> "PART_TIME"
                [] OTHER     -> "CONTRACTOR"

\* emp_001 -> emp_002 -> emp_003 (top level) <- emp_004 <- emp_005 ...
ManagerOf(i) == IF i = 3 THEN <<>>
                ELSE LET m == IF i < 3 THEN i + 1 ELSE i - 1
                     IN  <<[id |-> EmpId(m), display_full_name |-> EmpName(m)]>>

Employee(i) ==
    [id                |-> EmpId(i),
     display_full_name |-> EmpName(i),
     first_name        |-> "Employee",
     last_name         |-> ToString(i),
     employment_status |-> "ACTIVE",
     employment_type   |-> EmpType(i),
     start_date        |-> "2020-01-0" \o ToString(i),
     company           |-> [name |-> "Acme"],
     manager           |-> ManagerOf(i)]

Prefix(n) == [k \in 1..n |-> Employee(k)]

\* a second record with the id of emp_001 and other contents
Homonym == [Employee(1) EXCEPT !.display_full_name = "Employee 1 bis",
                               !.employment_type = "PART_TIME",
                               !.manager = <<>>]

Without(rec, key) == [k \in DOMAIN rec \ {key} |-> rec[k]]

\* the "results" of the input files: well-formed ones, in and out of order,
\* with a repeated id, and with a record that lacks a key
Results ==
    {Prefix(n) : n \in {0, 2, MaxLoad}}
    \cup {Reverse(Prefix(3)),
          <<Employee(1), Employee(2), Homonym>>,
          <<Employee(1), Without(Employee(2), "display_full_name"), Employee(3)>>,
          <<Employee(1), Employee(2), Without(Employee(3), "id")>>}

\* the inputs of the answer generator's specification
AnswerResults ==
    {Prefix(n) : n \in {1, 2, MaxLoad}}
    \cup {<<Employee(3)>>, <<Employee(2), Employee(4)>>}

\* company_data.json as load_data finds it
NoFile      == [exists |-> FALSE, json |-> FALSE, data |-> [other |-> <<>>]]
InvalidFile == [exists |-> TRUE,  json |-> FALSE, data |-> [other |-> <<>>]]
JsonFile(d) == [exists |-> TRUE,  json |-> TRUE,  data |-> d]
Files == {NoFile, InvalidFile, JsonFile([other |-> <<>>])}
         \cup {JsonFile([results |-> r]) : r \in Results}
AnswerFiles == {JsonFile([results |-> r]) : r \in AnswerResults}

(***************************************************************************)
(* Text pieces                                                             *)
(***************************************************************************)
Indent == "  "
IsSpace(p) == p \in {" ", Indent}

\* str.strip(): what lies between the leading and the trailing white space
Strip(s) ==
    LET first == CHOOSE i \in 1..(Len(s) + 1) :
                     /\ \A j \in 1..(i - 1) : IsSpace(s[j])
                     /\ i <= Len(s) => ~IsSpace(s[i])
        last  == CHOOSE i \in 0..Len(s) :
                     /\ \A j \in (i + 1)..Len(s) : IsSpace(s[j])
                     /\ i >= 1 => ~IsSpace(s[i])
    IN  SubSeq(s, first, last)

\* create_employee_text: KeyError unless every interpolated key is present
TextKeys == {"id", "display_full_name", "first_name", "last_name",
             "employment_status", "employment_type", "start_date", "company"}

TextRaises(employee) == ~(TextKeys \subseteq DOMAIN employee)

HasManager(employee) ==
    "manager" \in DOMAIN employee /\ employee.manager # <<>>

create_employee_text(employee) ==
    LET manager_info ==
            IF HasManager(employee)
            THEN <<"Manager: ", employee.manager[1].display_full_name,
                   " (ID: ", employee.manager[1].id, ")">>
            ELSE <<"No manager (likely a top-level employee)">>
        text ==
            <<Indent, "Employee ID: ", employee.id,
              Indent, "Name: ", employee.display_full_name,
              Indent, "First Name: ", employee.first_name,
              Indent, "Last Name: ", employee.last_name,
              Indent, "Employment Status: ", employee.employment_status,
              Indent, "Employment Type: ", employee.employment_type,
              Indent, "Start Date: ", employee.start_date,
              Indent, "Company: ", employee.company.name,
              Indent>> \o manager_info \o <<Indent>>
    IN  Strip(text)

(***************************************************************************)
(* The embedding model and the vector index (external libraries)           *)
(***************************************************************************)
Unit == 5 * 13

\* six directions of the plane with integer norms 1, 13, 5, 5, 13, 1
RawDirs == << <<1, 0>>, <<12, 5>>, <<4, 3>>, <<3, 4>>, <<5, 12>>, <<0, 1>> >>

RawVec(code) == LET d == RawDirs[(code % 6) + 1]
                    s == (code % 2) + 1
                IN  <<d[1] * s, d[2] * s>>

Vocabulary == <<"manager of ", "manager", "emp_001", "emp_002", "emp_003",
                "emp_004", "full-time", "part time", " ", "MANAGER OF ">>

VocabSet == {Vocabulary[c] : c \in 1..Len(Vocabulary)}

\* every query of at most MaxQueryLen pieces
AllQueries == UNION {[1..n -> VocabSet] : n \in 0..MaxQueryLen}

PieceCode(p) == CHOOSE c \in 1..Len(Vocabulary) : Vocabulary[c] = p
IdCode(id)   == CHOOSE c \in 1..9 : EmpId(c) = id
TypeCode(t)  == CASE t = "FULL_TIME" -> 0 [] t = "PART_TIME" -> 2 [] OTHER -> 3

RECURSIVE SumCodes(_)
SumCodes(q) == IF q = <<>> THEN 0 ELSE PieceCode(Head(q)) + SumCodes(Tail(q))

\* SentenceTransformer.encode of one employee text
EncodeText(text) ==
    RawVec(IdCode(text[2]) + TypeCode(text[17])
           + (IF text[Len(text)] = ")" THEN 1 ELSE 0))

\* SentenceTransformer.encode of the query
EncodeQuery(q) == RawVec(SumCodes(q))

encode(texts) == [k \in 1..Len(texts) |-> EncodeText(texts[k])]

\* the Euclidean norm of a vector of the first quadrant (whole for RawDirs)
Norm(v) == CHOOSE r \in 0..(v[1] + v[2]) :
               /\ r * r <= v[1] * v[1] + v[2] * v[2]
               /\ (r + 1) * (r + 1) > v[1] * v[1] + v[2] * v[2]

\* faiss.normalize_L2 of one row, in units of 1/Unit
NormalizeRow(v) == LET norm == Norm(v)
                   IN  IF norm = 0 THEN v
                       ELSE <<(v[1] * Unit) \div norm, (v[2] * Unit) \div norm>>

normalize_L2(m) == [k \in 1..Len(m) |-> NormalizeRow(m[k])]

InnerProduct(a, b) == a[1] * b[1] + a[2] * b[2]

\* IndexFlatIP ranks row j before row i: the higher inner product, the lower
\* position among equals
Before(rows, q, j, i) ==
    \/ InnerProduct(rows[j], q) > InnerProduct(rows[i], q)
    \/ InnerProduct(rows[j], q) = InnerProduct(rows[i], q) /\ j < i

\* the place of row i in the ranking of all rows
Rank(rows, q, i) ==
    1 + Cardinality({j \in 1..Len(rows) : Before(rows, q, j, i)})

\* index.search(q, k): the positions (1-based here) and their scores
search(rows, q, k) ==
    LET indices == [n \in 1..MinOf(k, Len(rows)) |->
                        CHOOSE i \in 1..Len(rows) : Rank(rows, q, i) = n]
    IN  [indices |-> indices,
         scores  |-> [n \in 1..Len(indices) |-> InnerProduct(rows[indices[n]], q)]]

(***************************************************************************)
(* VectorService: load                                                     *)
(***************************************************************************)
EmptyDict == [k \in {} |-> <<>>]

DictPut(d, key, value) ==
    [k \in DOMAIN d \cup {key} |-> IF k = key THEN value ELSE d[k]]

\* the metadata dict of lines 114-122
Metadata(employee) ==
    [id                |-> employee.id,
     name              |-> employee.display_full_name,
     employment_type   |-> employee.employment_type,
     employment_status |-> employee.employment_status,
     manager_id        |-> IF HasManager(employee) THEN employee.manager[1].id ELSE PyNone,
     manager_name      |-> IF HasManager(employee)
                           THEN employee.manager[1].display_full_name ELSE PyNone,
     company           |-> employee.company.name]

\* the state after lines 97-103
Cleared == [dict |-> EmptyDict, ids |-> <<>>, meta |-> <<>>, texts |-> <<>>,
            raised |-> FALSE]

\* LoopBody with the metadata entry put at the front of the sequence
LoopBody_prepend(f, employee) ==
    IF "id" \notin DOMAIN employee
    THEN [f EXCEPT !.raised = TRUE]
    ELSE LET g == [f EXCEPT !.dict = DictPut(f.dict, employee.id, employee),
                            !.ids  = Append(f.ids, employee.id)]
         IN  IF TextRaises(employee)
             THEN [g EXCEPT !.raised = TRUE]
             ELSE [g EXCEPT !.texts = Append(g.texts, create_employee_text(employee)),
                            !.meta  = <<Metadata(employee)>> \o g.meta]

\* one iteration of the for loop, lines 104-123; a KeyError leaves what the
\* statements before it have done
LoopBody(f, employee) ==
    IF "id" \notin DOMAIN employee
    THEN [f EXCEPT !.raised = TRUE]
    ELSE LET g == [f EXCEPT !.dict = DictPut(f.dict, employee.id, employee),
                            !.ids  = Append(f.ids, employee.id)]
         IN  IF TextRaises(employee)
             THEN [g EXCEPT !.raised = TRUE]
             ELSE [g EXCEPT !.texts = Append(g.texts, create_employee_text(employee)),
                            !.meta  = Append(g.meta, Metadata(employee))]

RECURSIVE Loop(_, _)
Loop(f, employees) ==
    IF employees = <<>> \/ f.raised THEN f
    ELSE Loop(LoopBody(f, Head(employees)), Tail(employees))

\* lines 126-132: the rows the fresh index holds after index.add
Embed(texts) == normalize_L2(encode(texts))

\* the loop and the embedding of every input, computed once
LoopOf  == [r \in Results \cup AnswerResults |-> Loop(Cleared, r)]
EmbedOf == [r \in Results \cup AnswerResults |-> Embed(LoopOf[r].texts)]

PickleData == [employees_dict    |-> employees_dict',
               employee_ids      |-> employee_ids',
               employee_metadata |-> employee_metadata']

Truncated == [truncated |-> TRUE]

\* the points at which the libraries may raise during a load
Faults == {"none", "encode", "write_index", "open_pickle", "dump_pickle"}

\* _save_data, lines 52-69: two files written one after the other, any
\* exception logged and swallowed
_save_data(fault) ==
    CASE fault = "write_index" -> UNCHANGED disk
      [] fault = "open_pickle" -> disk_index' = <<index'>> /\ UNCHANGED disk_meta
      [] fault = "dump_pickle" -> disk_index' = <<index'>> /\ disk_meta' = <<Truncated>>
      [] OTHER                 -> disk_index' = <<index'>> /\ disk_meta' = <<PickleData>>

\* history of _save_data: what a complete save has put in both files
Persist(fault) ==
    CASE fault = "write_index" -> UNCHANGED persisted
      [] fault \in {"open_pickle", "dump_pickle"} -> persisted' = <<>>
      [] OTHER -> persisted' = <<[index |-> index', employees_dict |-> employees_dict',
                                  employee_ids |-> employee_ids',
                                  employee_metadata |-> employee_metadata']>>

\* load_employees, lines 93-142; raised' tells whether the call raised
load_employees(employees, fault, raised) ==
    LET f == LoopOf[employees]
    IN  /\ employees_dict' = f.dict
        /\ employee_ids' = f.ids
        /\ employee_metadata' = f.meta
        /\ IF f.raised \/ fault = "encode"
           THEN /\ index' = <<>>
                /\ raised = TRUE
                /\ UNCHANGED <<disk, persisted>>
           ELSE /\ index' = EmbedOf[employees]
                /\ raised = FALSE
                /\ _save_data(fault)
                /\ Persist(fault)

(***************************************************************************)
(* VectorService: the answer generator                                     *)
(***************************************************************************)
\* str.lower() of one piece
LowerPiece(p) == CASE p = "MANAGER OF " -> "manager of "
                   [] OTHER             -> p

Lower(q) == [n \in 1..Len(q) |-> LowerPiece(q[n])]

\* the searched substrings that occur in a piece; none spans two pieces
Subs(p) == CASE p = "manager of " -> {"manager", "manager of"}
             [] p = "manager"     -> {"manager"}
             [] p = "emp_001"     -> {"001"}
             [] p = "emp_002"     -> {"002"}
             [] p = "emp_003"     -> {"003"}
             [] p = "full-time"   -> {"full-time"}
             [] p = "part time"   -> {"part time"}
             [] OTHER             -> {}

\* sub in text
In(sub, text) == \E n \in 1..Len(text) : sub \in Subs(text[n])

\* text.count(sub)
Count(sub, text) == Cardinality({n \in 1..Len(text) : sub \in Subs(text[n])})

IdCandidates == <<"001", "002", "003">>

\* ", ".join(names)
RECURSIVE Join(_)
Join(names) == IF Len(names) <= 1 THEN names
               ELSE <<Head(names), ", ">> \o Join(Tail(names))

Take(s, n) == SubSeq(s, 1, MinOf(n, Len(s)))

\* find_manager_chain, lines 144-161
RECURSIVE ChainFrom(_, _, _, _)
ChainFrom(dict, current_id, levels, chain) ==
    IF levels = 0 \/ current_id \notin DOMAIN dict THEN chain
    ELSE LET employee == dict[current_id]
         IN  IF ~HasManager(employee) THEN chain
             ELSE ChainFrom(dict, employee.manager[1].id, levels - 1,
                            Append(chain, employee.manager[1]))

find_manager_chain(dict, employee_id, levels) ==
    ChainFrom(dict, employee_id, levels, <<>>)

\* AskedId that keeps the last candidate found instead of the first
AskedId_last(query_lower) ==
    IF In("manager", query_lower) /\ In("manager of", query_lower)
       /\ \E c \in 1..Len(IdCandidates) : In(IdCandidates[c], query_lower)
    THEN LET c == CHOOSE c \in 1..Len(IdCandidates) :
                      /\ In(IdCandidates[c], query_lower)
                      /\ \A b \in (c + 1)..Len(IdCandidates) :
                            ~In(IdCandidates[b], query_lower)
         IN  "emp_" \o IdCandidates[c]
    ELSE PyNone

\* lines 214-220: the employee the manager rule asks about, or PyNone
AskedId(query_lower) ==
    IF In("manager", query_lower) /\ In("manager of", query_lower)
       /\ \E c \in 1..Len(IdCandidates) : In(IdCandidates[c], query_lower)
    THEN LET c == CHOOSE c \in 1..Len(IdCandidates) :
                      /\ In(IdCandidates[c], query_lower)
                      /\ \A b \in 1..(c - 1) : ~In(IdCandidates[b], query_lower)
         IN  "emp_" \o IdCandidates[c]
    ELSE PyNone

\* lines 222-240: the manager rule answers
ManagerRuleApplies(query_lower, dict) ==
    AskedId(query_lower) # PyNone /\ AskedId(query_lower) \in DOMAIN dict

ManagerAnswer(query_lower, dict) ==
    LET emp_id   == AskedId(query_lower)
        employee == dict[emp_id]
    IN  IF In("manager of", query_lower) /\ Count("manager", query_lower) >= 2
        THEN LET manager_chain == find_manager_chain(dict, emp_id, 2)
             IN  CASE Len(manager_chain) >= 2 ->
                        <<"The manager of the manager of ", employee.display_full_name,
                          " is ", manager_chain[2].display_full_name, ".">>
                   [] Len(manager_chain) = 1 ->
                        <<"The manager of ", employee.display_full_name,
                          " is ", manager_chain[1].display_full_name,
                          ", but they don't have a manager above them.">>
                   [] OTHER ->
                        <<employee.display_full_name, " doesn't have a manager.">>
        ELSE IF HasManager(employee)
             THEN <<"The manager of ", employee.display_full_name,
                    " is ", employee.manager[1].display_full_name, ".">>
             ELSE <<employee.display_full_name,
                    " doesn't have a manager (likely a top-level employee).">>

OfType(relevant_employees, t) ==
    SelectSeq(relevant_employees, LAMBDA emp : emp.employment_type = t)

Names(emps) == [n \in 1..Len(emps) |-> emps[n].name]

\* lines 255-263
DefaultAnswer(relevant_employees) ==
    IF Len(relevant_employees) = 1
    THEN LET emp == relevant_employees[1]
             manager_info == IF Truthy(emp.manager_name)
                             THEN <<" Their manager is ", emp.manager_name, ".">>
                             ELSE <<" They don't have a manager.">>
         IN  <<"Found employee: ", emp.name, " (", emp.employment_type, ").">>
             \o manager_info
    ELSE <<"Found ", ToString(Len(relevant_employees)),
           " relevant employees. Top matches: ">>
         \o Join(Names(Take(relevant_employees, 3)))

\* generate_answer with the employment-type rules tried before the manager rule
generate_answer_type_first(query, relevant_employees, dict) ==
    LET query_lower == Lower(query)
        full_time_employees == OfType(relevant_employees, "FULL_TIME")
        part_time_employees == OfType(relevant_employees, "PART_TIME")
    IN  IF relevant_employees = <<>>
        THEN <<"No relevant employees found for your query.">>
        ELSE IF (In("full-time", query_lower) \/ In("full time", query_lower))
                /\ full_time_employees # <<>>
        THEN <<"Full-time employees: ">> \o Join(Names(full_time_employees))
        ELSE IF (In("part-time", query_lower) \/ In("part time", query_lower))
                /\ part_time_employees # <<>>
        THEN <<"Part-time employees: ">> \o Join(Names(part_time_employees))
        ELSE IF ManagerRuleApplies(query_lower, dict)
        THEN ManagerAnswer(query_lower, dict)
        ELSE DefaultAnswer(relevant_employees)

\* generate_answer, lines 205-263
generate_answer(query, relevant_employees, dict) ==
    LET query_lower == Lower(query)
        full_time_employees == OfType(relevant_employees, "FULL_TIME")
        part_time_employees == OfType(relevant_employees, "PART_TIME")
    IN  CASE relevant_employees = <<>> ->
                <<"No relevant employees found for your query.">>
          [] relevant_employees # <<>> /\ ManagerRuleApplies(query_lower, dict) ->
                ManagerAnswer(query_lower, dict)
          [] OTHER ->
                IF (In("full-time", query_lower) \/ In("full time", query_lower))
                   /\ full_time_employees # <<>>
                THEN <<"Full-time employees: ">> \o Join(Names(full_time_employees))
                ELSE IF (In("part-time", query_lower) \/ In("part time", query_lower))
                        /\ part_time_employees # <<>>
                THEN <<"Part-time employees: ">> \o Join(Names(part_time_employees))
                ELSE DefaultAnswer(relevant_employees)

\* the KeyError of lines 230-240 on a record without display_full_name
AnswerRaises(query, relevant_employees, dict) ==
    /\ relevant_employees # <<>>
    /\ ManagerRuleApplies(Lower(query), dict)
    /\ "display_full_name" \notin DOMAIN dict[AskedId(Lower(query))]

(***************************************************************************)
(* VectorService: query                                                    *)
(***************************************************************************)
\* lines 185-191
Summary(metadata, score) ==
    [id               |-> metadata.id,
     name             |-> metadata.name,
     employment_type  |-> metadata.employment_type,
     manager_name     |-> metadata.manager_name,
     similarity_score |-> score]

\* lines 172-178: the query is embedded and normalized once, then searched
Search(rows, query) ==
    CHOOSE found \in {search(rows, query_embedding, MinOf(n_results, Len(rows))) :
                        query_embedding \in {NormalizeRow(EncodeQuery(query))}} : TRUE

\* query_employees without the test of line 166
query_employees_unchecked(rows, meta, dict, query) ==
    LET found == Search(rows, query)
        k     == Len(found.indices)
    IN  IF \E n \in 1..k : found.indices[n] > Len(meta)
        THEN [raised |-> TRUE, answer |-> <<>>, relevant_employees |-> <<>>]
        ELSE LET relevant_employees ==
                     [n \in 1..k |-> Summary(meta[found.indices[n]], found.scores[n])]
             IN  [raised |-> FALSE,
                  answer |-> generate_answer(query, relevant_employees, dict),
                  relevant_employees |-> relevant_employees]

\* query_employees, lines 163-203, on the given service state
query_employees(rows, meta, dict, query) ==
    IF Len(rows) = 0
    THEN [raised |-> FALSE, answer |-> NoDataAnswer, relevant_employees |-> <<>>]
    ELSE LET found == Search(rows, query)
             k     == Len(found.indices)
         IN  IF \E n \in 1..k : found.indices[n] > Len(meta)
             THEN [raised |-> TRUE, answer |-> <<>>, relevant_employees |-> <<>>]
             ELSE LET relevant_employees ==
                          [n \in 1..k |-> Summary(meta[found.indices[n]], found.scores[n])]
                  IN  IF AnswerRaises(query, relevant_employees, dict)
                      THEN [raised |-> TRUE, answer |-> <<>>, relevant_employees |-> <<>>]
                      ELSE [raised |-> FALSE,
                            answer |-> generate_answer(query, relevant_employees, dict),
                            relevant_employees |-> relevant_employees]

(***************************************************************************)
(* The service at rest and the HTTP handlers of main.py                    *)
(***************************************************************************)
LdIdle == [pc |-> "idle", employees |-> <<>>, texts |-> <<>>, input |-> <<>>]
QrIdle == [pc |-> "idle", query |-> <<>>, indices |-> <<>>, scores |-> <<>>,
           relevant_employees |-> <<>>, searched |-> <<>>]

Response(op, status, called, detail, query, answer, relevant_employees) ==
    [op |-> op, status |-> status, called |-> called, detail |-> detail,
     query |-> query, answer |-> answer, relevant_employees |-> relevant_employees]

\* the except clauses of load_data, lines 45-51
LoadDataStatus(exc) == CASE exc = "FileNotFoundError" -> 404
                         [] exc = "JSONDecodeError"   -> 400
                         [] OTHER                     -> 500

\* the except clause of query_data, lines 69-71
QueryDataStatus(exc) == 500

\* data.get("results", [])
GetResults(data) == IF "results" \in DOMAIN data THEN data.results ELSE <<>>

\* VectorService.__init__ without the restore: lines 20-25
Fresh ==
    /\ index = <<>>
    /\ employees_dict = EmptyDict
    /\ employee_ids = <<>>
    /\ employee_metadata = <<>>

Init ==
    /\ Fresh
    /\ disk_index = <<>>
    /\ disk_meta = <<>>
    /\ resp = Response("start", 0, FALSE, "", <<>>, <<>>, <<>>)
    /\ last_ok = <<>>
    /\ persisted = <<>>
    /\ ld = LdIdle
    /\ qr = QrIdle

Idle == ld.pc = "idle" /\ qr.pc = "idle"

\* POST /load-data, lines 26-51
LoadData(file, fault) ==
    /\ Idle
    /\ UNCHANGED <<ld, qr>>
    /\ IF ~file.exists
       THEN /\ resp' = Response("load", LoadDataStatus("FileNotFoundError"), FALSE,
                                "company_data.json file not found", <<>>, <<>>, <<>>)
            /\ UNCHANGED <<svc, disk, last_ok, persisted>>
       ELSE IF ~file.json
       THEN /\ resp' = Response("load", LoadDataStatus("JSONDecodeError"), FALSE,
                                "Invalid JSON format", <<>>, <<>>, <<>>)
            /\ UNCHANGED <<svc, disk, last_ok, persisted>>
       ELSE IF GetResults(file.data) = <<>>
       THEN /\ resp' = Response("load", LoadDataStatus("HTTPException"), FALSE,
                                "Error loading data: 400: No employee data found",
                                <<>>, <<>>, <<>>)
            /\ UNCHANGED <<svc, disk, last_ok, persisted>>
       ELSE \E raised \in BOOLEAN :
            /\ load_employees(GetResults(file.data), fault, raised)
            /\ IF raised
               THEN /\ resp' = Response("load", LoadDataStatus("Exception"), TRUE,
                                        "Error loading data", <<>>, <<>>, <<>>)
                    /\ UNCHANGED last_ok
               ELSE /\ resp' = Response("load", 200, TRUE, "success", <<>>, <<>>, <<>>)
                    /\ last_ok' = <<GetResults(file.data)>>

\* POST /query, lines 54-71
QueryData(query) ==
    /\ Idle
    /\ UNCHANGED <<svc, disk, last_ok, persisted, ld, qr>>
    /\ IF Strip(query) = <<>>
       THEN resp' = Response("query", QueryDataStatus("HTTPException"), FALSE,
                             "Error processing query: 400: Query cannot be empty",
                             query, <<>>, <<>>)
       ELSE LET result == query_employees(index, employee_metadata, employees_dict, query)
            IN  IF result.raised
                THEN resp' = Response("query", QueryDataStatus("Exception"), TRUE,
                                      "Error processing query", query, <<>>, <<>>)
                ELSE resp' = Response("query", 200, TRUE, "", query,
                                      result.answer, result.relevant_employees)

\* _load_existing_data that does not restore the record map
_load_existing_data_no_dict ==
    LET fresh == [index |-> <<>>, employees_dict |-> EmptyDict,
                  employee_ids |-> <<>>, employee_metadata |-> <<>>]
    IN  IF disk_index # <<>> /\ disk_meta # <<>>
        THEN IF "truncated" \in DOMAIN disk_meta[1]
             THEN [fresh EXCEPT !.index = disk_index[1]]
             ELSE [index             |-> disk_index[1],
                   employees_dict    |-> EmptyDict,
                   employee_ids      |-> disk_meta[1].employee_ids,
                   employee_metadata |-> disk_meta[1].employee_metadata]
        ELSE fresh

\* _load_existing_data, lines 34-50, on the freshly constructed service: the
\* index is assigned before the pickle is read, and any exception is swallowed
_load_existing_data ==
    LET fresh == [index |-> <<>>, employees_dict |-> EmptyDict,
                  employee_ids |-> <<>>, employee_metadata |-> <<>>]
    IN  IF disk_index # <<>> /\ disk_meta # <<>>
        THEN IF "truncated" \in DOMAIN disk_meta[1]
             THEN [fresh EXCEPT !.index = disk_index[1]]
             ELSE [index             |-> disk_index[1],
                   employees_dict    |-> disk_meta[1].employees_dict,
                   employee_ids      |-> disk_meta[1].employee_ids,
                   employee_metadata |-> disk_meta[1].employee_metadata]
        ELSE fresh

\* a new process: VectorService.__init__, lines 14-32
Restart ==
    /\ Idle
    /\ UNCHANGED <<disk, last_ok, persisted, ld, qr>>
    /\ resp' = Response("start", 0, FALSE, "", <<>>, <<>>, <<>>)
    /\ index' = _load_existing_data.index
    /\ employees_dict' = _load_existing_data.employees_dict
    /\ employee_ids' = _load_existing_data.employee_ids
    /\ employee_metadata' = _load_existing_data.employee_metadata

Queries == {<<>>, <<" ", " ">>,
            <<"emp_004", " ", "manager">>,
            <<"manager of ", "emp_001">>,
            <<"part time">>}

Next ==
    \/ \E file \in Files, fault \in Faults : LoadData(file, fault)
    \/ \E query \in Queries : QueryData(query)
    \/ Restart

Spec == Init /\ [][Next]_vars

(***************************************************************************)
(* The answer generator on its inputs: one load of a well-formed file,     *)
(* then one query, for every file of AnswerFiles and every query of at     *)
(* most MaxQueryLen pieces                                                 *)
(***************************************************************************)
InitAnswer ==
    /\ Fresh
    /\ disk_index = <<>>
    /\ disk_meta = <<>>
    /\ resp = Response("start", 0, FALSE, "", <<>>, <<>>, <<>>)
    /\ last_ok = <<>>
    /\ persisted = <<>>
    /\ \E r \in AnswerResults : ld = [LdIdle EXCEPT !.employees = r]
    /\ \E q \in AllQueries : qr = [QrIdle EXCEPT !.query = q]

AnswerLoad ==
    /\ resp.op = "start"
    /\ LoadData(JsonFile([results |-> ld.employees]), "none")

AnswerQuery ==
    /\ resp.op = "load"
    /\ QueryData(qr.query)

NextAnswer == AnswerLoad \/ AnswerQuery

SpecAnswer == InitAnswer /\ [][NextAnswer]_vars

(***************************************************************************)
(* Two callers of the one service object: a load_employees call and a      *)
(* query_employees call that advance statement by statement                *)
(***************************************************************************)
RaceResults == {Prefix(2), Reverse(Prefix(3))}
RaceQueries == {<<"manager of ", "emp_001">>, <<"part time">>}

\* MayStep under a lock that one call holds from entry to return
MayStep_locked(own, other) == own.pc # "idle" /\ other.pc = "idle"

\* neither method takes a lock: a call in progress may always run its next
\* statement, wherever the other call stands
MayStep(own, other) == own.pc # "idle"

\* a caller enters load_employees, line 93
LoadCall ==
    /\ ld.pc = "idle"
    /\ \E r \in RaceResults :
          ld' = [pc |-> "clear_index", employees |-> r, texts |-> <<>>, input |-> r]
    /\ UNCHANGED <<svc, disk, resp, last_ok, persisted, qr>>

\* line 97
LoadClearIndex ==
    /\ MayStep(ld, qr) /\ ld.pc = "clear_index"
    /\ index' = <<>>
    /\ ld' = [ld EXCEPT !.pc = "clear_rest"]
    /\ UNCHANGED <<employees_dict, employee_ids, employee_metadata,
                   disk, resp, last_ok, persisted, qr>>

\* lines 98-100
LoadClearRest ==
    /\ MayStep(ld, qr) /\ ld.pc = "clear_rest"
    /\ employees_dict' = Cleared.dict
    /\ employee_ids' = Cleared.ids
    /\ employee_metadata' = Cleared.meta
    /\ ld' = [ld EXCEPT !.pc = "loop"]
    /\ UNCHANGED <<index, disk, resp, last_ok, persisted, qr>>

\* one pass of lines 104-123, or the exit of the loop
LoadLoop ==
    /\ MayStep(ld, qr) /\ ld.pc = "loop"
    /\ UNCHANGED <<index, disk, last_ok, persisted, qr>>
    /\ IF ld.employees = <<>>
       THEN /\ ld' = [ld EXCEPT !.pc = "embed"]
            /\ UNCHANGED <<employees_dict, employee_ids, employee_metadata, resp>>
       ELSE LET f == LoopBody([dict |-> employees_dict, ids |-> employee_ids,
                               meta |-> employee_metadata, texts |-> ld.texts,
                               raised |-> FALSE], Head(ld.employees))
            IN  /\ employees_dict' = f.dict
                /\ employee_ids' = f.ids
                /\ employee_metadata' = f.meta
                /\ IF f.raised
                   THEN /\ ld' = [ld EXCEPT !.pc = "idle"]
                        /\ resp' = Response("load", LoadDataStatus("Exception"), TRUE,
                                            "Error loading data", <<>>, <<>>, <<>>)
                   ELSE /\ ld' = [ld EXCEPT !.employees = Tail(ld.employees),
                                            !.texts = f.texts]
                        /\ UNCHANGED resp

\* lines 126-132
LoadEmbed ==
    /\ MayStep(ld, qr) /\ ld.pc = "embed"
    /\ index' = index \o Embed(ld.texts)
    /\ ld' = [ld EXCEPT !.pc = "save"]
    /\ UNCHANGED <<employees_dict, employee_ids, employee_metadata,
                   disk, resp, last_ok, persisted, qr>>

\* lines 135-138
LoadSave ==
    /\ MayStep(ld, qr) /\ ld.pc = "save"
    /\ UNCHANGED svc
    /\ _save_data("none")
    /\ Persist("none")
    /\ last_ok' = <<ld.input>>
    /\ resp' = Response("load", 200, TRUE, "success", <<>>, <<>>, <<>>)
    /\ ld' = [ld EXCEPT !.pc = "idle"]
    /\ UNCHANGED qr

\* a caller enters query_employees, line 163
QueryCall ==
    /\ qr.pc = "idle"
    /\ \E q \in RaceQueries : qr' = [QrIdle EXCEPT !.pc = "check", !.query = q]
    /\ UNCHANGED <<svc, disk, resp, last_ok, persisted, ld>>

\* lines 166-170
QueryCheck ==
    /\ MayStep(qr, ld) /\ qr.pc = "check"
    /\ UNCHANGED <<svc, disk, last_ok, persisted, ld>>
    /\ IF Len(index) = 0
       THEN /\ resp' = Response("query", 200, TRUE, "", qr.query, NoDataAnswer, <<>>)
            /\ qr' = [qr EXCEPT !.pc = "idle"]
       ELSE /\ qr' = [qr EXCEPT !.pc = "search"]
            /\ UNCHANGED resp

\* lines 173-178; faiss refuses a search for k = 0 neighbours
QuerySearch ==
    /\ MayStep(qr, ld) /\ qr.pc = "search"
    /\ UNCHANGED <<svc, disk, last_ok, persisted, ld>>
    /\ IF Len(index) = 0
       THEN /\ resp' = Response("query", QueryDataStatus("Exception"), TRUE,
                                "Error processing query", qr.query, <<>>, <<>>)
            /\ qr' = [qr EXCEPT !.pc = "idle"]
       ELSE /\ \E found \in {Search(index, qr.query)} :
                    qr' = [qr EXCEPT !.pc = "collect",
                                     !.indices = found.indices,
                                     !.scores = found.scores,
                                     !.searched = employee_metadata]
            /\ UNCHANGED resp

\* one pass of lines 182-191, or the exit of the loop
QueryCollect ==
    /\ MayStep(qr, ld) /\ qr.pc = "collect"
    /\ UNCHANGED <<svc, disk, last_ok, persisted, ld>>
    /\ LET n == Len(qr.relevant_employees) + 1
       IN  IF n > Len(qr.indices)
           THEN /\ qr' = [qr EXCEPT !.pc = "answer"]
                /\ UNCHANGED resp
           ELSE IF qr.indices[n] > Len(employee_metadata)
           THEN /\ resp' = Response("query", QueryDataStatus("Exception"), TRUE,
                                    "Error processing query", qr.query, <<>>, <<>>)
                /\ qr' = [qr EXCEPT !.pc = "idle"]
           ELSE /\ qr' = [qr EXCEPT !.relevant_employees =
                             Append(@, Summary(employee_metadata[qr.indices[n]],
                                               qr.scores[n]))]
                /\ UNCHANGED resp

\* lines 194-199
QueryAnswer ==
    /\ MayStep(qr, ld) /\ qr.pc = "answer"
    /\ UNCHANGED <<svc, disk, last_ok, persisted, ld>>
    /\ qr' = [qr EXCEPT !.pc = "idle"]
    /\ IF AnswerRaises(qr.query, qr.relevant_employees, employees_dict)
       THEN resp' = Response("query", QueryDataStatus("Exception"), TRUE,
                             "Error processing query", qr.query, <<>>, <<>>)
       ELSE resp' = Response("query", 200, TRUE, "", qr.query,
                             generate_answer(qr.query, qr.relevant_employees,
                                             employees_dict),
                             qr.relevant_employees)

LoadStep == LoadClearIndex \/ LoadClearRest \/ LoadLoop \/ LoadEmbed \/ LoadSave

QueryStep == QueryCheck \/ QuerySearch \/ QueryCollect \/ QueryAnswer

NextRace == LoadCall \/ LoadStep \/ QueryCall \/ QueryStep

SpecRace == Init /\ [][NextRace]_vars

(***************************************************************************)
(* Properties                                                              *)
(***************************************************************************)
\* the row that the text of an employee produces in the index
RowOf(employee) == NormalizeRow(EncodeText(create_employee_text(employee)))

\* the well-formed employee records of the inputs
KnownEmployees ==
    {e \in UNION {{r[k] : k \in 1..Len(r)} : r \in Results \cup AnswerResults} :
        "id" \in DOMAIN e /\ ~TextRaises(e)}

IdsOf(employees) == {employees[k].id : k \in 1..Len(employees)}

\* the last record of employees that carries the id
LastWith(employees, id) ==
    employees[CHOOSE k \in 1..Len(employees) :
                 /\ employees[k].id = id
                 /\ \A j \in (k + 1)..Len(employees) : employees[j].id # id]

\* C1: whenever no operation is in progress (after startup, after a load
\* that succeeded, after a load that raised), the metadata sequence and the
\* index have the same number of entries and metadata entry i describes the
\* employee whose text produced row i
C1_PositionalCoupling ==
    Idle =>
        /\ Len(employee_metadata) = Len(index)
        /\ \A i \in 1..Len(index) :
              \E e \in KnownEmployees :
                  employee_metadata[i] = Metadata(e) /\ index[i] = RowOf(e)

\* C2 as claimed: a load of N records that returned success leaves exactly N
\* entries in the record map, the metadata sequence and the index, in the
\* input order
C2_ExactlyNEverywhere ==
    (resp.op = "load" /\ resp.status = 200) =>
        LET employees == last_ok[1]
            N == Len(employees)
        IN  /\ Cardinality(DOMAIN employees_dict) = N
            /\ Len(employee_metadata) = N
            /\ Len(index) = N
            /\ \A i \in 1..N : /\ employee_metadata[i] = Metadata(employees[i])
                               /\ index[i] = RowOf(employees[i])

\* C2 amended: a load of N records that returned success leaves exactly N
\* metadata entries, N ids and N rows, entry i being record i of the input,
\* and a record map that holds exactly the ids of the input, each with the
\* last input record of that id (N entries when the ids are distinct);
\* nothing of the state before the load remains
C2_FullReplacement ==
    (resp.op = "load" /\ resp.status = 200) =>
        LET employees == last_ok[1]
            N == Len(employees)
        IN  /\ Len(employee_metadata) = N
            /\ Len(employee_ids) = N
            /\ Len(index) = N
            /\ \A i \in 1..N : /\ employee_metadata[i] = Metadata(employees[i])
                               /\ employee_ids[i] = employees[i].id
                               /\ index[i] = RowOf(employees[i])
            /\ DOMAIN employees_dict = IdsOf(employees)
            /\ \A id \in IdsOf(employees) :
                  employees_dict[id] = LastWith(employees, id)
            /\ (Cardinality(IdsOf(employees)) = N
                    => Cardinality(DOMAIN employees_dict) = N)

\* C2 witness: a load of the three records given in reverse order returned
\* success while the files still hold another, earlier load
C2_Witness ==
    /\ resp.op = "load" /\ resp.status = 200
    /\ last_ok = <<Reverse(Prefix(3))>>
    /\ employee_ids = <<EmpId(3), EmpId(2), EmpId(1)>>
    /\ persisted # <<>>
    /\ persisted[1].employee_ids # employee_ids

\* the files hold exactly what a load of employees leaves in the service
DiskHolds(employees) ==
    /\ disk_index = <<EmbedOf[employees]>>
    /\ disk_meta = <<[employees_dict    |-> LoopOf[employees].dict,
                      employee_ids      |-> LoopOf[employees].ids,
                      employee_metadata |-> LoopOf[employees].meta]>>

\* C4: whenever no operation is in progress, the two files are exactly the
\* state of the most recent load that returned success, or both absent if
\* none did
C4_FilesAreLastSuccess ==
    Idle => IF last_ok = <<>>
            THEN disk_index = <<>> /\ disk_meta = <<>>
            ELSE DiskHolds(last_ok[1])

\* C5: a blank query is answered 400 without query_employees being called,
\* a file without employee records is answered 400 without load_employees
\* being called, a missing file 404
C5_BadInputIs400 ==
    /\ (resp.op = "query" /\ Strip(resp.query) = <<>>)
            => (resp.status = 400 /\ ~resp.called)
    /\ (resp.op = "load" /\ resp.detail = "Error loading data: 400: No employee data found")
            => (resp.status = 400 /\ ~resp.called)
    /\ (resp.op = "load" /\ resp.detail = "company_data.json file not found")
            => (resp.status = 404 /\ ~resp.called)

\* C3: after a save has written both files, a new process holds the index,
\* the metadata sequence, the ids and the record map that were saved, and
\* answers every query as the saved state did
C3_RoundTrip ==
    (resp.op = "start" /\ persisted # <<>>) =>
        /\ index = persisted[1].index
        /\ employee_metadata = persisted[1].employee_metadata
        /\ employee_ids = persisted[1].employee_ids
        /\ employees_dict = persisted[1].employees_dict
        /\ \A q \in Queries :
              query_employees(index, employee_metadata, employees_dict, q)
                  = query_employees(persisted[1].index, persisted[1].employee_metadata,
                                    persisted[1].employees_dict, q)

\* C3 witness: a new process has restored a saved load of three records
C3_Witness ==
    /\ resp.op = "start"
    /\ persisted # <<>>
    /\ Len(index) = 3
    /\ Len(employee_metadata) = 3

\* C6: a non-blank query on an index without vectors is answered with the
\* fixed sentence and no employees and changes neither the service nor the
\* files; and the index has no vectors as long as no load has returned success
C6_NoDataAnswer ==
    /\ [](last_ok = <<>> => index = <<>>)
    /\ [][(resp'.op = "query" /\ Strip(resp'.query) # <<>> /\ index = <<>>)
            => /\ resp'.status = 200
               /\ resp'.answer = NoDataAnswer
               /\ resp'.relevant_employees = <<>>
               /\ UNCHANGED <<svc, disk>>]_vars

\* C6 witness: the fixed answer was given after a load that raised had
\* left records in the metadata sequence
C6_Witness ==
    /\ resp.op = "query" /\ Strip(resp.query) # <<>>
    /\ index = <<>> /\ employee_metadata # <<>>
    /\ resp.answer = NoDataAnswer

NonIncreasing(rel) ==
    \A n \in 1..(Len(rel) - 1) : rel[n].similarity_score >= rel[n + 1].similarity_score

\* C9: a non-blank query on an index of N >= 1 vectors returns exactly
\* min(5, N) employees, each the summary of a loaded employee, no two the
\* same, by non-increasing score
C9_TopK ==
    (resp.op = "query" /\ Strip(resp.query) # <<>> /\ Len(index) >= 1) =>
        LET rel == resp.relevant_employees
        IN  /\ resp.status = 200
            /\ Len(rel) = MinOf(n_results, Len(index))
            /\ \A n \in 1..Len(rel) :
                  \E i \in 1..Len(employee_metadata) :
                      rel[n] = Summary(employee_metadata[i], rel[n].similarity_score)
            /\ \A m, n \in 1..Len(rel) : m # n => rel[m] # rel[n]
            /\ NonIncreasing(rel)

\* the answer contains the piece
Mentions(answer, piece) == \E n \in 1..Len(answer) : answer[n] = piece

\* the text contains "manager of emp_001"
AsksManagerOfEmp001(text) ==
    \E n \in 1..(Len(text) - 1) : text[n] = "manager of " /\ text[n + 1] = "emp_001"

\* a query of the claim's kind was answered from loaded data that holds
\* emp_001 with a manager
C7_Case(text) ==
    /\ resp.op = "query" /\ resp.status = 200
    /\ AsksManagerOfEmp001(text)
    /\ index # <<>>
    /\ "emp_001" \in DOMAIN employees_dict
    /\ HasManager(employees_dict["emp_001"])

\* C7 as claimed: the answer to a query that contains "manager of emp_001"
\* names the manager of emp_001, whatever else the query contains
C7_NamesManager ==
    C7_Case(resp.query) =>
        Mentions(resp.answer, employees_dict["emp_001"].manager[1].display_full_name)

\* C7 amended: the answer names the manager of emp_001, unless the lowercased
\* query contains "manager" at least twice and that manager is itself a
\* loaded employee with a manager: then it names the manager's manager
C7_NamesManagerOrTheirs ==
    C7_Case(Lower(resp.query)) =>
        LET m == employees_dict["emp_001"].manager[1]
            twice == Count("manager", Lower(resp.query)) >= 2
            above == m.id \in DOMAIN employees_dict /\ HasManager(employees_dict[m.id])
        IN  IF twice /\ above
            THEN /\ Head(resp.answer) = "The manager of the manager of "
                 /\ Mentions(resp.answer,
                             employees_dict[m.id].manager[1].display_full_name)
            ELSE Mentions(resp.answer, m.display_full_name)

\* C7 witness: "manager of emp_001" followed by another id was answered with
\* the manager of emp_001
C7_Witness ==
    /\ C7_Case(resp.query)
    /\ resp.query = <<"manager of ", "emp_001", "emp_002">>
    /\ Mentions(resp.answer, EmpName(2))

IsManagerSentence(answer) ==
    \/ Head(answer) \in {"The manager of the manager of ", "The manager of "}
    \/ Len(answer) = 2 /\ answer[2] \in
           {" doesn't have a manager.",
            " doesn't have a manager (likely a top-level employee)."}

IsTypeList(answer) ==
    Head(answer) \in {"Full-time employees: ", "Part-time employees: "}

IsDefault(answer) == Head(answer) \in {"Found employee: ", "Found "}

NamesOfType(rel, t) == Names(SelectSeq(rel, LAMBDA emp : emp.employment_type = t))

AnyFragment(text) == In("001", text) \/ In("002", text) \/ In("003", text)

\* the employee the first of the fragments 001, 002, 003 found in the text names
FragmentEmployee(text) ==
    IF In("001", text) THEN "emp_001"
    ELSE IF In("002", text) THEN "emp_002" ELSE "emp_003"

Answered == resp.op = "query" /\ resp.status = 200 /\ index # <<>>

\* C8 as claimed: (1) "manager" and an id fragment give a manager sentence;
\* (2) otherwise full-time or part-time gives the list of that type;
\* (3) otherwise the default answer
C8_FirstRuleWins ==
    Answered =>
        LET text == Lower(resp.query)
            rule1 == In("manager", text) /\ AnyFragment(text)
            rule2 == In("full-time", text) \/ In("full time", text)
                     \/ In("part-time", text) \/ In("part time", text)
        IN  /\ rule1 => IsManagerSentence(resp.answer)
            /\ (~rule1 /\ rule2) => IsTypeList(resp.answer)
            /\ (~rule1 /\ ~rule2) => IsDefault(resp.answer)

\* C8 amended: (1) "manager of", an id fragment and a loaded employee for the
\* first fragment found give a manager sentence about that employee;
\* (2) otherwise full-time with a retrieved FULL_TIME employee gives the list
\* of those, and failing that part-time with a retrieved PART_TIME employee
\* the list of those; (3) otherwise the default answer: the single match, or
\* the count and the first three names
C8_RulesInOrder ==
    Answered =>
        LET text == Lower(resp.query)
            rel  == resp.relevant_employees
            rule1 == /\ In("manager of", text) /\ AnyFragment(text)
                     /\ FragmentEmployee(text) \in DOMAIN employees_dict
            full == /\ In("full-time", text) \/ In("full time", text)
                    /\ NamesOfType(rel, "FULL_TIME") # <<>>
            part == /\ In("part-time", text) \/ In("part time", text)
                    /\ NamesOfType(rel, "PART_TIME") # <<>>
        IN  /\ rule1 =>
                  /\ IsManagerSentence(resp.answer)
                  /\ Mentions(resp.answer,
                              employees_dict[FragmentEmployee(text)].display_full_name)
            /\ (~rule1 /\ full) =>
                  resp.answer = <<"Full-time employees: ">>
                                \o Join(NamesOfType(rel, "FULL_TIME"))
            /\ (~rule1 /\ ~full /\ part) =>
                  resp.answer = <<"Part-time employees: ">>
                                \o Join(NamesOfType(rel, "PART_TIME"))
            /\ (~rule1 /\ ~full /\ ~part) =>
                  /\ IsDefault(resp.answer)
                  /\ Mentions(resp.answer, rel[1].name)
                  /\ Len(rel) = 1 <=> Head(resp.answer) = "Found employee: "
                  /\ Len(rel) > 1 =>
                        SubSeq(resp.answer, 4, Len(resp.answer)) = Join(Names(Take(rel, 3)))

\* C8 witness: a query with "manager" and an id fragment but without "of",
\* and with "full-time", was answered with the full-time list
C8_Witness ==
    /\ Answered
    /\ resp.query = <<"manager", "emp_001", "full-time">>
    /\ Head(resp.answer) = "Full-time employees: "

\* C10: neither call is ever held back by the other: whatever statement the
\* query has reached, a load can start or run its next statement, and
\* whatever statement the load has reached, so can a query
C10_NoLock ==
    /\ ld.pc = "idle" => ENABLED LoadCall
    /\ ld.pc = "clear_index" => ENABLED LoadClearIndex
    /\ ld.pc = "clear_rest" => ENABLED LoadClearRest
    /\ ld.pc = "loop" => ENABLED LoadLoop
    /\ ld.pc = "embed" => ENABLED LoadEmbed
    /\ ld.pc = "save" => ENABLED LoadSave
    /\ qr.pc = "idle" => ENABLED QueryCall
    /\ qr.pc = "check" => ENABLED QueryCheck
    /\ qr.pc = "search" => ENABLED QuerySearch
    /\ qr.pc = "collect" => ENABLED QueryCollect
    /\ qr.pc = "answer" => ENABLED QueryAnswer

\* C10 witness: a query returned an employee other than the one whose row
\* its search had ranked at that place
C10_Witness ==
    /\ resp.op = "query" /\ resp.status = 200 /\ qr.pc = "idle"
    /\ \E n \in 1..Len(resp.relevant_employees) :
          /\ qr.indices[n] <= Len(qr.searched)
          /\ resp.relevant_employees[n].id # qr.searched[qr.indices[n]].id

\* C10, second outcome: the query looked up a metadata position that the
\* load had removed
C10_LostPosition ==
    /\ resp.op = "query" /\ resp.status = 500 /\ qr.pc = "idle"
    /\ qr.indices # <<>>
    /\ Len(qr.relevant_employees) < Len(qr.indices)
    /\ qr.indices[Len(qr.relevant_employees) + 1] > Len(employee_metadata)

====
